---- MODULE Spec2Model ----
(***************************************************************************)
(* Solar-system catalog and calculator.                                    *)
(*                                                                         *)
(*   src/calculator_solar_system.py : PLANETS (a dict keyed by name) and   *)
(*       the derivation functions over it.                                 *)
(*   src/solar_system.py            : SolarSystem.planets (a list of       *)
(*       Planet objects) and its query methods.                            *)
(*                                                                         *)
(* NUMBERS.  Python ints are modelled as TLA+ integers.  Python floats are *)
(* modelled as a finite number grid: a float is an integer count of grid   *)
(* steps of size 1/Scale, together with the two values Inf and -Inf.       *)
(* Every arithmetic result is rounded to the nearest grid point; a nonzero *)
(* result smaller than half a step becomes 0 (underflow) and a product or  *)
(* quotient larger than MaxFloat becomes +-Inf (overflow), as in IEEE-754  *)
(* binary64, where every finite value is an integer multiple of 2^-1074    *)
(* and the largest is about 1.8e308.  The grid is much coarser and much    *)
(* shorter than binary64, so the arguments at which rounding, underflow    *)
(* and overflow happen differ from the program's; which outcomes exist is  *)
(* the same.  -0.0 and 0.0 compare equal in Python and are both 0 here.    *)
(* NaN is not modelled: no operation below is applied to an Inf argument   *)
(* that would yield one.  The exceptions Python raises (ZeroDivisionError  *)
(* on x / 0, ValueError on math.sqrt of a negative, OverflowError on an    *)
(* overflowing power) are modelled as such.                                *)
(*                                                                         *)
(* UNITS.  The grid cannot hold 149597870.7 or 1.989e30, so lengths that   *)
(* the program holds in km or m are counted in Gm (10^9 m) and G*SUN_MASS  *)
(* in Gm*(km/s)^2; the factors 1000 of lines 108 and 110 are unit changes  *)
(* that cancel in these units.                                             *)
(***************************************************************************)
EXTENDS Integers, Sequences, FiniteSets, TLC

(***************************************************************************)
(* The number grid                                                         *)
(***************************************************************************)
Scale == 1000

MaxFloat == 200000000

Inf == MaxFloat + 1

Abs(x) == IF x < 0 THEN -x ELSE x

Sign(x) == IF x < 0 THEN -1 ELSE IF x > 0 THEN 1 ELSE 0

IsInf(x) == Abs(x) > MaxFloat

\* Round-to-nearest of q + r/d, for 0 <= r < d.
RoundQuot(q, r, d) == IF 2 * r >= d THEN q + 1 ELSE q

\* Overflow: a magnitude beyond the largest finite value is Inf.
Saturate(m) == IF m > MaxFloat THEN Inf ELSE m

\* <<floor(x*y/d), (x*y) mod d>> for 0 <= x < d and y >= 0, by doubling,
\* so that no intermediate value exceeds 3*d.
RECURSIVE MulMod(_, _, _)
MulMod(x, y, d) ==
    IF y = 0 THEN <<0, 0>>
    ELSE LET h == MulMod(x, y \div 2, d)
             t == 2 * h[2] + (y % 2) * x
         IN  <<2 * h[1] + t \div d, t % d>>

\* |x / d| on the grid for finite magnitudes x >= 0, d > 0 in one unit.
DivMag(x, d) ==
    LET q0   == x \div d
        frac == MulMod(x % d, Scale, d)
    IN  IF q0 > MaxFloat \div Scale THEN Inf
        ELSE Saturate(RoundQuot(q0 * Scale + frac[1], frac[2], d))

\* Python's x / d for d # 0 (the caller raises ZeroDivisionError on d = 0).
TrueDiv(x, d) ==
    IF IsInf(d) THEN 0
    ELSE IF IsInf(x) THEN Sign(x) * Sign(d) * Inf
    ELSE Sign(x) * Sign(d) * DivMag(Abs(x), Abs(d))

\* |a * b| on the grid for finite magnitudes a, b >= 0.
MulMag(a, b) ==
    LET qa == a \div Scale
        ra == a % Scale
        qb == b \div Scale
        rb == b % Scale
        lo == ra * rb
    IN  IF qa > 0 /\ qb > (MaxFloat \div Scale) \div qa THEN Inf
        ELSE Saturate(RoundQuot(qa * qb * Scale + qa * rb + ra * qb
                                  + lo \div Scale, lo % Scale, Scale))

\* Python's a * b on floats: overflow gives +-Inf without an exception.
FMul(a, b) ==
    IF a = 0 \/ b = 0 THEN 0
    ELSE IF IsInf(a) \/ IsInf(b) THEN Sign(a) * Sign(b) * Inf
    ELSE Sign(a) * Sign(b) * MulMag(Abs(a), Abs(b))

\* s * t <= Scale * v (or, when strict, s * t < Scale * v), decided for
\* t in {s, s + 1} without forming the product.
ProdLe(s, t, v, strict) ==
    LET sh == s \div Scale
        sl == s % Scale
    IN  IF sh > 0 /\ t > MaxFloat \div sh THEN FALSE
        ELSE LET q == sh * t + (sl * t) \div Scale
                 r == (sl * t) % Scale
             IN  q < v \/ (~strict /\ q = v /\ r = 0)

\* Largest s in lo..hi with s * s <= Scale * v, by bisection.
RECURSIVE Bisect(_, _, _)
Bisect(lo, hi, v) ==
    IF lo >= hi THEN lo
    ELSE LET mid == (lo + hi + 1) \div 2
         IN  IF ProdLe(mid, mid, v, FALSE) THEN Bisect(mid, hi, v)
             ELSE Bisect(lo, mid - 1, v)

\* math.sqrt(v) for v >= 0 (the caller raises ValueError on v < 0): the
\* grid point nearest to the root, s + 1 when (s + 1/2)^2 <= Scale * v.
FSqrt(v) ==
    IF v = Inf THEN Inf
    ELSE LET s == Bisect(0, IF v > Scale THEN v ELSE Scale, v)
         IN  IF ProdLe(s, s + 1, v, TRUE) THEN s + 1 ELSE s

\* a**3 as a float power: the two products, each rounded to the grid.
\* Python raises OverflowError when a finite base gives an infinite power.
FPow3(a) ==
    LET c == FMul(FMul(a, a), a)
    IN  [overflow |-> IsInf(c) /\ ~IsInf(a), value |-> c]

(***************************************************************************)
(* Names: a str is the sequence of its character codes.                    *)
(***************************************************************************)
Mercury == <<77, 101, 114, 99, 117, 114, 121>>

Venus == <<86, 101, 110, 117, 115>>

Earth == <<69, 97, 114, 116, 104>>

Mars == <<77, 97, 114, 115>>

Jupiter == <<74, 117, 112, 105, 116, 101, 114>>

Saturn == <<83, 97, 116, 117, 114, 110>>

Uranus == <<85, 114, 97, 110, 117, 115>>

Neptune == <<78, 101, 112, 116, 117, 110, 101>>

Pluto == <<80, 108, 117, 116, 111>>

\* str.lower() and str.upper() on ASCII text.
LowerChar(ch) == IF ch >= 65 /\ ch <= 90 THEN ch + 32 ELSE ch

UpperChar(ch) == IF ch >= 97 /\ ch <= 122 THEN ch - 32 ELSE ch

lower(str) == [i \in 1..Len(str) |-> LowerChar(str[i])]

upper(str) == [i \in 1..Len(str) |-> UpperChar(str[i])]

(***************************************************************************)
(* calculator_solar_system.PLANETS.  A dict keeps its keys in insertion     *)
(* order: the dict is the sequence of its (key, value) items.  radius_km    *)
(* and moons are ints; the other fields are floats (day_hours and year_days *)
(* mix int and float literals and are read as floats).                      *)
(***************************************************************************)
PlanetsDict ==
    << [key |-> Mercury, distance_au |-> 387, mass_earth |-> 55, radius_km |-> 2440,
        day_hours |-> 1408000, year_days |-> 87970, moons |-> 0],
       [key |-> Venus, distance_au |-> 723, mass_earth |-> 815, radius_km |-> 6052,
        day_hours |-> 5832000, year_days |-> 224700, moons |-> 0],
       [key |-> Earth, distance_au |-> 1000, mass_earth |-> 1000, radius_km |-> 6371,
        day_hours |-> 24000, year_days |-> 365250, moons |-> 1],
       [key |-> Mars, distance_au |-> 1524, mass_earth |-> 107, radius_km |-> 3390,
        day_hours |-> 24600, year_days |-> 686970, moons |-> 2],
       [key |-> Jupiter, distance_au |-> 5203, mass_earth |-> 317800, radius_km |-> 69911,
        day_hours |-> 9900, year_days |-> 4331000, moons |-> 95],
       [key |-> Saturn, distance_au |-> 9537, mass_earth |-> 95200, radius_km |-> 58232,
        day_hours |-> 10700, year_days |-> 10747000, moons |-> 146],
       [key |-> Uranus, distance_au |-> 19191, mass_earth |-> 14500, radius_km |-> 25362,
        day_hours |-> 17200, year_days |-> 30589000, moons |-> 27],
       [key |-> Neptune, distance_au |-> 30069, mass_earth |-> 17100, radius_km |-> 24622,
        day_hours |-> 16100, year_days |-> 59800000, moons |-> 14] >>

(***************************************************************************)
(* solar_system: PlanetType, Planet and SolarSystem._create_planets.        *)
(***************************************************************************)
TERRESTRIAL == "Terrestrial (Rocky)"

GASEOUS == "Gaseous (Gas Giant)"

ICE_GIANT == "Ice Giant"

\* Members of the enum in definition order.
PlanetType == <<TERRESTRIAL, GASEOUS, ICE_GIANT>>

_create_planets ==
    << [name |-> Mercury, planet_type |-> TERRESTRIAL,
        distance_from_sun_au |-> 390, diameter_km |-> 4879,
        mass_relative_to_earth |-> 55, orbital_period_days |-> 87970,
        rotation_period_hours |-> 1407600, moons |-> 0,
        temperature_celsius |-> 167,
        composition |-> "Iron core, rocky surface",
        interesting_facts |->
            << "Closest planet to the Sun",
               "Smallest planet in our solar system",
               "Has extreme temperature variations between day and night",
               "Named after the Roman messenger god",
               "Has no atmosphere" >>],
       [name |-> Venus, planet_type |-> TERRESTRIAL,
        distance_from_sun_au |-> 720, diameter_km |-> 12104,
        mass_relative_to_earth |-> 815, orbital_period_days |-> 224700,
        rotation_period_hours |-> 2802000, moons |-> 0,
        temperature_celsius |-> 464,
        composition |-> "Carbon dioxide atmosphere, rocky surface",
        interesting_facts |->
            << "Hottest planet in our solar system",
               "Similar in size to Earth",
               "Rotates backwards compared to most planets",
               "Rotates slower than it orbits the Sun",
               "Has a thick, toxic atmosphere with sulfuric acid clouds" >>],
       [name |-> Earth, planet_type |-> TERRESTRIAL,
        distance_from_sun_au |-> 1000, diameter_km |-> 12742,
        mass_relative_to_earth |-> 1000, orbital_period_days |-> 365250,
        rotation_period_hours |-> 24000, moons |-> 1,
        temperature_celsius |-> 15,
        composition |-> "Iron core, rocky crust, water oceans",
        interesting_facts |->
            << "Only known planet with life",
               "Has one natural satellite: the Moon",
               "Covers about 71% water",
               "Has a protective magnetic field",
               "The perfect distance from the Sun for liquid water" >>],
       [name |-> Mars, planet_type |-> TERRESTRIAL,
        distance_from_sun_au |-> 1520, diameter_km |-> 6779,
        mass_relative_to_earth |-> 107, orbital_period_days |-> 686971,
        rotation_period_hours |-> 24600, moons |-> 2,
        temperature_celsius |-> -65,
        composition |-> "Iron oxide surface, thin CO2 atmosphere",
        interesting_facts |->
            << "Known as the Red Planet due to iron oxide in soil",
               "Has the largest volcano in the solar system (Olympus Mons)",
               "Home to Valles Marineris, the largest canyon",
               "A potential candidate for future human colonization",
               "Has two small moons: Phobos and Deimos" >>],
       [name |-> Jupiter, planet_type |-> GASEOUS,
        distance_from_sun_au |-> 5200, diameter_km |-> 139820,
        mass_relative_to_earth |-> 317800, orbital_period_days |-> 4332890,
        rotation_period_hours |-> 9900, moons |-> 95,
        temperature_celsius |-> -110,
        composition |-> "Hydrogen and helium gas with rocky core",
        interesting_facts |->
            << "Largest planet in our solar system",
               "Has a Great Red Spot (storm larger than Earth)",
               "Has at least 95 known moons",
               "Rotates faster than any other planet",
               "Has a powerful magnetic field and faint ring system" >>],
       [name |-> Saturn, planet_type |-> GASEOUS,
        distance_from_sun_au |-> 9540, diameter_km |-> 116460,
        mass_relative_to_earth |-> 95200, orbital_period_days |-> 10759220,
        rotation_period_hours |-> 10700, moons |-> 146,
        temperature_celsius |-> -140,
        composition |-> "Hydrogen and helium gas with rocky core",
        interesting_facts |->
            << "Famous for its spectacular ring system",
               "Second largest planet in our solar system",
               "The least dense planet - would float in water",
               "Has over 146 known moons",
               "Titan, its largest moon, has a thick atmosphere" >>],
       [name |-> Uranus, planet_type |-> ICE_GIANT,
        distance_from_sun_au |-> 19190, diameter_km |-> 50724,
        mass_relative_to_earth |-> 14500, orbital_period_days |-> 30688500,
        rotation_period_hours |-> 17200, moons |-> 28,
        temperature_celsius |-> -195,
        composition |-> "Water, methane, ammonia ices with rocky core",
        interesting_facts |->
            << "Rotates on its side (axial tilt of 98 degrees)",
               "Appears as a featureless blue-green sphere",
               "Has a faint ring system",
               "Named after the Greek god of the sky",
               "Methane in its atmosphere gives it its blue color" >>],
       [name |-> Neptune, planet_type |-> ICE_GIANT,
        distance_from_sun_au |-> 30070, diameter_km |-> 49244,
        mass_relative_to_earth |-> 17100, orbital_period_days |-> 60182000,
        rotation_period_hours |-> 16100, moons |-> 16,
        temperature_celsius |-> -200,
        composition |-> "Water, methane, ammonia ices with rocky core",
        interesting_facts |->
            << "Farthest planet from the Sun in our solar system",
               "Coldest planetary atmosphere",
               "Has the strongest winds in the solar system",
               "Named after the Roman god of the sea",
               "Has a dark spot (similar to Jupiter's Great Red Spot)" >>] >>

(***************************************************************************)
(* Astronomical constants, in the units of the grid.                       *)
(***************************************************************************)
\* AU = 149597870.7 km, counted in Gm.
AU == 149598

\* G = 6.67430e-11 m^3 kg^-1 s^-2, counted in Gm (km/s)^2 per 10^30 kg.
G == 66743000

\* SUN_MASS = 1.989e30 kg, counted in 10^30 kg.
SUN_MASS == 1989

\* math.pi
Pi == 3142

\* Float literals of the source.
earth_escape_v == 11186

HabitableZoneInner == 950

HabitableZoneOuter == 1370

GravityLow == 500

GravityHigh == 2000

(***************************************************************************)
(* State                                                                   *)
(***************************************************************************)
VARIABLES
    PLANETS,   \* the module-level dict of calculator_solar_system
    planets,   \* SolarSystem.planets of the constructed SolarSystem
    call,      \* the last call made: [op, args]
    result,    \* how it ended: a returned value or a raised exception
    stdout     \* what it printed

vars == <<PLANETS, planets, call, result, stdout>>

Return(v) == [kind |-> "return", value |-> v]

Raise(type, text, arg) ==
    [kind |-> "raise", type |-> type, text |-> text, arg |-> arg]

\* Python's None.
None == [none |-> TRUE]

\* Variant: the guard is missing and PLANETS[planet_name] raises KeyError.
PlanetNotFound_KeyError(planet_name) ==
    Raise("KeyError", "{planet_name}", planet_name)

\* raise ValueError(f"Planet {planet_name} not found")
PlanetNotFound(planet_name) ==
    Raise("ValueError", "Planet {planet_name} not found", planet_name)

MathDomainError == Raise("ValueError", "math domain error", <<>>)

\* planet_name in PLANETS: dict membership compares keys with ==.
InPLANETS(planet_name) == \E i \in DOMAIN PLANETS : PLANETS[i].key = planet_name

\* PLANETS[planet_name]
GetItem(planet_name) ==
    PLANETS[CHOOSE i \in DOMAIN PLANETS : PLANETS[i].key = planet_name]

(***************************************************************************)
(* calculator_solar_system: the derivation functions                       *)
(***************************************************************************)
orbital_period_kepler(semi_major_axis_au) ==
    LET cube == FPow3(semi_major_axis_au)
    IN  IF cube.overflow
        THEN Raise("OverflowError", "Numerical result out of range", <<>>)
        ELSE IF cube.value < 0 THEN MathDomainError
        ELSE Return(FSqrt(cube.value))

\* Variant: the quotient is taken upside down.
orbital_velocity_inverted(semi_major_axis_au) ==
    LET semi_major_axis_m == FMul(semi_major_axis_au, AU)
        gm == FMul(G, SUN_MASS)
    IN  IF gm = 0
        THEN Raise("ZeroDivisionError", "float division by zero", <<>>)
        ELSE LET quotient == TrueDiv(semi_major_axis_m, gm)
             IN  IF quotient < 0 THEN MathDomainError
                 ELSE Return(FSqrt(quotient))

\* Variant: the square root is taken of the absolute value.
orbital_velocity_abs(semi_major_axis_au) ==
    LET semi_major_axis_m == FMul(semi_major_axis_au, AU)
        gm == FMul(G, SUN_MASS)
    IN  IF semi_major_axis_m = 0
        THEN Raise("ZeroDivisionError", "float division by zero", <<>>)
        ELSE Return(FSqrt(Abs(TrueDiv(gm, semi_major_axis_m))))

\* Lines 108-110.  semi_major_axis_m is counted in Gm and the velocity in
\* km/s, so the factor 1000 of line 108 and the divisor 1000 of line 110
\* are the unit changes and do not appear.
orbital_velocity(semi_major_axis_au) ==
    LET semi_major_axis_m == FMul(semi_major_axis_au, AU)
        gm == FMul(G, SUN_MASS)
    IN  IF semi_major_axis_m = 0
        THEN Raise("ZeroDivisionError", "float division by zero", <<>>)
        ELSE LET quotient == TrueDiv(gm, semi_major_axis_m)
             IN  IF quotient < 0 THEN MathDomainError
                 ELSE Return(FSqrt(quotient))

\* radius_m (line 127) is assigned and never read.  The divisions are by
\* Earth's radius and by a radius ratio, neither of which is 0 in PLANETS.
escape_velocity(planet_name) ==
    IF ~InPLANETS(planet_name) THEN PlanetNotFound(planet_name)
    ELSE LET planet == GetItem(planet_name)
             mass_ratio == planet.mass_earth
             radius_ratio == TrueDiv(planet.radius_km, GetItem(Earth).radius_km)
             escape_v == FMul(earth_escape_v,
                              FSqrt(TrueDiv(mass_ratio, radius_ratio)))
         IN  Return(escape_v)

\* Variant: the radius ratio is not squared.
surface_gravity_unsquared(planet_name) ==
    IF ~InPLANETS(planet_name) THEN PlanetNotFound(planet_name)
    ELSE LET planet == GetItem(planet_name)
             mass_ratio == planet.mass_earth
             radius_ratio == TrueDiv(planet.radius_km, GetItem(Earth).radius_km)
             gravity == TrueDiv(mass_ratio, radius_ratio)
         IN  Return(gravity)

surface_gravity(planet_name) ==
    IF ~InPLANETS(planet_name) THEN PlanetNotFound(planet_name)
    ELSE LET planet == GetItem(planet_name)
             mass_ratio == planet.mass_earth
             radius_ratio == TrueDiv(planet.radius_km, GetItem(Earth).radius_km)
             gravity == TrueDiv(mass_ratio, FMul(radius_ratio, radius_ratio))
         IN  Return(gravity)

distance_au_to_km(distance_au) == Return(FMul(distance_au, AU))

distance_km_to_au(distance_km) == Return(TrueDiv(distance_km, AU))

\* Lines 208-209.  radius_km**2 and radius_km**3 are exact ints that the
\* program then multiplies by a float; the radius is counted in 10^4 km
\* here so that the cube of Jupiter's radius stays on the grid.
TenThousandKm == 10000

surface_area(radius_km) ==
    LET r == TrueDiv(radius_km, TenThousandKm)
    IN  FMul(FMul(4 * Scale, Pi), FMul(r, r))

volume(radius_km) ==
    LET r == TrueDiv(radius_km, TenThousandKm)
    IN  FMul(FMul(TrueDiv(4, 3), Pi), FMul(FMul(r, r), r))

\* The dict display of lines 201-216 is evaluated entry by entry; the first
\* exception raised by a callee leaves planetary_info.
planetary_info(planet_name) ==
    IF ~InPLANETS(planet_name) THEN PlanetNotFound(planet_name)
    ELSE LET planet   == GetItem(planet_name)
             km       == distance_au_to_km(planet.distance_au)
             period   == orbital_period_kepler(planet.distance_au)
             velocity == orbital_velocity(planet.distance_au)
             gravity  == surface_gravity(planet_name)
             escape   == escape_velocity(planet_name)
         IN  IF period.kind = "raise" THEN period
             ELSE IF velocity.kind = "raise" THEN velocity
             ELSE IF gravity.kind = "raise" THEN gravity
             ELSE IF escape.kind = "raise" THEN escape
             ELSE Return([name                  |-> planet_name,
                          distance_au           |-> planet.distance_au,
                          distance_km           |-> km.value,
                          orbital_period_years  |-> period.value,
                          orbital_velocity_km_s |-> velocity.value,
                          radius_km             |-> planet.radius_km,
                          surface_area_km2      |-> surface_area(planet.radius_km),
                          volume_km3            |-> volume(planet.radius_km),
                          mass_earth_masses     |-> planet.mass_earth,
                          surface_gravity_g     |-> gravity.value,
                          escape_velocity_km_s  |-> escape.value,
                          day_hours             |-> planet.day_hours,
                          year_days             |-> planet.year_days,
                          moons                 |-> planet.moons])

\* Variant: the test is inverted.
in_habitable_zone_inverted(distance_au) ==
    distance_au < HabitableZoneInner \/ HabitableZoneOuter < distance_au

\* 0.95 < info['distance_au'] < 1.37
in_habitable_zone(distance_au) ==
    HabitableZoneInner < distance_au /\ distance_au < HabitableZoneOuter

\* 0.5 < info['surface_gravity_g'] < 2.0
suitable_gravity(surface_gravity_g) ==
    GravityLow < surface_gravity_g /\ surface_gravity_g < GravityHigh

\* Variant: the placeholder is left false.
has_stable_orbit_unset == FALSE

has_stable_orbit == TRUE

\* sum() over a list of bools counts the True ones.
RECURSIVE sum(_)
sum(bools) ==
    IF bools = <<>> THEN 0
    ELSE (IF Head(bools) THEN 1 ELSE 0) + sum(Tail(bools))

habitability_check(planet_name) ==
    IF ~InPLANETS(planet_name) THEN PlanetNotFound(planet_name)
    ELSE LET info == planetary_info(planet_name)
         IN  IF info.kind = "raise" THEN info
             ELSE LET zone    == in_habitable_zone(info.value.distance_au)
                      gravity == suitable_gravity(info.value.surface_gravity_g)
                      score   == sum(<<zone, gravity, has_stable_orbit>>)
                  IN  Return([planet                   |-> planet_name,
                              in_habitable_zone        |-> zone,
                              suitable_surface_gravity |-> gravity,
                              habitability_score       |-> score,
                              notes |-> "This is a highly simplified assessment and does not consider atmosphere, magnetic field, or other factors."])

\* The loop of lines 225-237: one block of output per key of PLANETS, in
\* the dict's order, each headed by the upper-cased key.  The number
\* formats of the f-strings are not modelled; a block holds the values.
solar_system_summary ==
    LET infos == [i \in DOMAIN PLANETS |-> planetary_info(PLANETS[i].key)]
        bad   == {i \in DOMAIN PLANETS : infos[i].kind = "raise"}
        stop  == IF bad = {} THEN Len(PLANETS) + 1
                 ELSE CHOOSE i \in bad : \A j \in bad : i <= j
    IN  [result |-> IF bad = {} THEN Return(None) ELSE infos[stop],
         stdout |-> [i \in 1..(stop - 1) |->
                       [heading |-> upper(PLANETS[i].key),
                        info    |-> infos[i].value]]]

(***************************************************************************)
(* solar_system: the methods of SolarSystem and Planet                     *)
(***************************************************************************)
\* Planet.display_info: the printed fields, in order.
display_info(self) ==
    <<upper(self.name), self.planet_type, self.distance_from_sun_au,
      self.diameter_km, self.mass_relative_to_earth,
      self.orbital_period_days, self.rotation_period_hours, self.moons,
      self.temperature_celsius, self.composition, self.interesting_facts>>

\* Variant: the list is walked from its end.
display_all_planets_reversed ==
    LET rev == [i \in DOMAIN planets |-> planets[Len(planets) + 1 - i]]
    IN  [result |-> Return(None),
         stdout |-> [count   |-> Len(rev),
                     listing |-> [i \in DOMAIN rev |->
                                    <<i, rev[i].name, rev[i].planet_type>>],
                     details |-> [i \in DOMAIN rev |-> display_info(rev[i])]]]

\* The numbered listing, then display_info of every planet, in list order.
display_all_planets ==
    [result |-> Return(None),
     stdout |-> [count   |-> Len(planets),
                 listing |-> [i \in DOMAIN planets |->
                                <<i, planets[i].name, planets[i].planet_type>>],
                 details |-> [i \in DOMAIN planets |-> display_info(planets[i])]]]

\* The first planet of the list whose lower-cased name equals the
\* lower-cased argument; None when the loop ends without a match.
get_planet_by_name(name) ==
    LET hits == {i \in DOMAIN planets : lower(planets[i].name) = lower(name)}
    IN  IF hits = {} THEN Return(None)
        ELSE Return(planets[CHOOSE i \in hits : \A j \in hits : i <= j])

RECURSIVE SelectNames(_, _)
SelectNames(list, ptype) ==
    IF list = <<>> THEN <<>>
    ELSE (IF Head(list).planet_type = ptype THEN <<Head(list).name>> ELSE <<>>)
         \o SelectNames(Tail(list), ptype)

\* For every member of PlanetType, the names of the planets of that type.
classify_by_type ==
    [result |-> Return(None),
     stdout |-> [t \in DOMAIN PlanetType |->
                   <<PlanetType[t], SelectNames(planets, PlanetType[t])>>]]

\* "not p1 or not p2": None is falsy, a Planet is truthy.
compare_planets(planet1_name, planet2_name) ==
    LET p1 == get_planet_by_name(planet1_name).value
        p2 == get_planet_by_name(planet2_name).value
    IN  IF p1 = None \/ p2 = None
        THEN [result |-> Return(None),
              stdout |-> <<"One or both planets not found!">>]
        ELSE [result |-> Return(None),
              stdout |-> <<upper(p1.name), upper(p2.name),
                           <<p1.name, p1.diameter_km, p2.name, p2.diameter_km>>,
                           <<p1.name, p1.distance_from_sun_au,
                             p2.name, p2.distance_from_sun_au>>,
                           <<p1.name, p1.moons, p2.name, p2.moons>>,
                           <<p1.name, p1.orbital_period_days,
                             p2.name, p2.orbital_period_days>> >>]

(***************************************************************************)
(* Arguments the callers pass                                              *)
(***************************************************************************)
MaxProbe == 3

CatalogKeys == {PlanetsDict[i].key : i \in DOMAIN PlanetsDict}

\* Every key as written, upper-cased and lower-cased; an unregistered name
\* in the same three spellings; the empty string.
NameInputs ==
    UNION {{n, upper(n), lower(n)} : n \in CatalogKeys \cup {Pluto}} \cup {<<>>}

\* The pairs compare_planets is called on are drawn from these spellings.
ComparedNames == {Earth, upper(Mars), lower(Jupiter), Pluto}

\* Floats: the grid points next to 0, halves and wholes around 0, the
\* catalog's distances, their negatives and the next float above each
\* distance, and the ends of the range.
ScalarInputs ==
    (-MaxProbe..MaxProbe)
    \cup {k * (Scale \div 2) : k \in -MaxProbe..MaxProbe}
    \cup UNION {{PlanetsDict[i].distance_au, -PlanetsDict[i].distance_au,
                 PlanetsDict[i].distance_au + 1} :
                  i \in DOMAIN PlanetsDict}
    \cup {MaxFloat \div Scale, -(MaxFloat \div Scale),
          MaxFloat, -MaxFloat, Inf, -Inf}

(***************************************************************************)
(* The state machine: one action per callable                              *)
(***************************************************************************)
NoCall == [op |-> "none", args |-> <<>>]

\* Variant: the fourth Planet(...) entry keeps the name of the entry it was
\* copied from.
Init_copied_entry ==
    /\ PLANETS = PlanetsDict
    /\ planets = [_create_planets EXCEPT ![4].name = Earth]
    /\ call = NoCall
    /\ result = Return(None)
    /\ stdout = <<>>

Init ==
    /\ PLANETS = PlanetsDict
    /\ planets = _create_planets
    /\ call = NoCall
    /\ result = Return(None)
    /\ stdout = <<>>

\* Each action is one call: it records the call, how it ended and what it
\* printed (a function without print statements prints nothing).  None of
\* the callables assigns to PLANETS, to self.planets or to a record.
OrbitalPeriodKepler ==
    \E a \in ScalarInputs :
        /\ call' = [op |-> "orbital_period_kepler", args |-> <<a>>]
        /\ result' = orbital_period_kepler(a)
        /\ stdout' = <<>>
        /\ UNCHANGED <<PLANETS, planets>>

OrbitalVelocity ==
    \E a \in ScalarInputs :
        /\ call' = [op |-> "orbital_velocity", args |-> <<a>>]
        /\ result' = orbital_velocity(a)
        /\ stdout' = <<>>
        /\ UNCHANGED <<PLANETS, planets>>

EscapeVelocity ==
    \E n \in NameInputs :
        /\ call' = [op |-> "escape_velocity", args |-> <<n>>]
        /\ result' = escape_velocity(n)
        /\ stdout' = <<>>
        /\ UNCHANGED <<PLANETS, planets>>

SurfaceGravity ==
    \E n \in NameInputs :
        /\ call' = [op |-> "surface_gravity", args |-> <<n>>]
        /\ result' = surface_gravity(n)
        /\ stdout' = <<>>
        /\ UNCHANGED <<PLANETS, planets>>

DistanceAuToKm ==
    \E x \in ScalarInputs :
        /\ call' = [op |-> "distance_au_to_km", args |-> <<x>>]
        /\ result' = distance_au_to_km(x)
        /\ stdout' = <<>>
        /\ UNCHANGED <<PLANETS, planets>>

DistanceKmToAu ==
    \E x \in ScalarInputs :
        /\ call' = [op |-> "distance_km_to_au", args |-> <<x>>]
        /\ result' = distance_km_to_au(x)
        /\ stdout' = <<>>
        /\ UNCHANGED <<PLANETS, planets>>

PlanetaryInfo ==
    \E n \in NameInputs :
        /\ call' = [op |-> "planetary_info", args |-> <<n>>]
        /\ result' = planetary_info(n)
        /\ stdout' = <<>>
        /\ UNCHANGED <<PLANETS, planets>>

SolarSystemSummary ==
    /\ call' = [op |-> "solar_system_summary", args |-> <<>>]
    /\ result' = solar_system_summary.result
    /\ stdout' = solar_system_summary.stdout
    /\ UNCHANGED <<PLANETS, planets>>

HabitabilityCheck ==
    \E n \in NameInputs :
        /\ call' = [op |-> "habitability_check", args |-> <<n>>]
        /\ result' = habitability_check(n)
        /\ stdout' = <<>>
        /\ UNCHANGED <<PLANETS, planets>>

DisplayAllPlanets ==
    /\ call' = [op |-> "display_all_planets", args |-> <<>>]
    /\ result' = display_all_planets.result
    /\ stdout' = display_all_planets.stdout
    /\ UNCHANGED <<PLANETS, planets>>

\* Variant: the loop lower-cases planet.name in place before comparing.
GetPlanetByName_normalising ==
    \E n \in NameInputs :
        /\ call' = [op |-> "get_planet_by_name", args |-> <<n>>]
        /\ result' = get_planet_by_name(n)
        /\ stdout' = <<>>
        /\ planets' = [i \in DOMAIN planets |->
                         [planets[i] EXCEPT !.name = lower(@)]]
        /\ UNCHANGED PLANETS

GetPlanetByName ==
    \E n \in NameInputs :
        /\ call' = [op |-> "get_planet_by_name", args |-> <<n>>]
        /\ result' = get_planet_by_name(n)
        /\ stdout' = <<>>
        /\ UNCHANGED <<PLANETS, planets>>

ClassifyByType ==
    /\ call' = [op |-> "classify_by_type", args |-> <<>>]
    /\ result' = classify_by_type.result
    /\ stdout' = classify_by_type.stdout
    /\ UNCHANGED <<PLANETS, planets>>

ComparePlanets ==
    \E n1, n2 \in ComparedNames :
        /\ call' = [op |-> "compare_planets", args |-> <<n1, n2>>]
        /\ result' = compare_planets(n1, n2).result
        /\ stdout' = compare_planets(n1, n2).stdout
        /\ UNCHANGED <<PLANETS, planets>>

Next ==
    \/ OrbitalPeriodKepler
    \/ OrbitalVelocity
    \/ EscapeVelocity
    \/ SurfaceGravity
    \/ DistanceAuToKm
    \/ DistanceKmToAu
    \/ PlanetaryInfo
    \/ SolarSystemSummary
    \/ HabitabilityCheck
    \/ DisplayAllPlanets
    \/ GetPlanetByName
    \/ ClassifyByType
    \/ ComparePlanets

Spec == Init /\ [][Next]_vars

(***************************************************************************)
(* Properties                                                              *)
(***************************************************************************)
CalculatorLookups ==
    {"escape_velocity", "surface_gravity", "planetary_info",
     "habitability_check"}

\* The argument of the last call, when it took a name.
Arg == call.args[1]

\* A name matches a record when the two are equal ignoring case.
Matches(name, key) == lower(name) = lower(key)

Registered(name) == \E i \in DOMAIN PLANETS : Matches(name, PLANETS[i].key)

Listed(name) == \E i \in DOMAIN planets : Matches(name, planets[i].name)

\* The outcome of a lookup-dependent function for the name n, with the
\* echoed name left out of the comparison.
SameOutcome(op, res, n) ==
    CASE op = "escape_velocity"    -> res = escape_velocity(n)
      [] op = "surface_gravity"    -> res = surface_gravity(n)
      [] op = "get_planet_by_name" -> res = get_planet_by_name(n)
      [] op = "planetary_info"     ->
            /\ res.kind = "return"
            /\ [res.value EXCEPT !.name = n] = planetary_info(n).value
      [] op = "habitability_check" ->
            /\ res.kind = "return"
            /\ [res.value EXCEPT !.planet = n] = habitability_check(n).value

\* C1: name matching is case-insensitive for every lookup: called with any
\* case variant of a catalog name n, get_planet_by_name and each of
\* escape_velocity, surface_gravity, planetary_info and habitability_check
\* succeeds and returns what it returns for n itself.
C1_CaseInsensitiveLookups ==
    \A i \in DOMAIN PLANETS :
        (/\ call.op \in CalculatorLookups \cup {"get_planet_by_name"}
         /\ Matches(Arg, PLANETS[i].key))
        => (/\ result.kind = "return"
            /\ SameOutcome(call.op, result, PLANETS[i].key))

\* C2: for a name that matches no catalog entry, each of the four
\* lookup-dependent functions raises the same 'Planet ... not found'
\* ValueError naming the argument, and so returns nothing.
C2_UnregisteredNameNotFound ==
    (call.op \in CalculatorLookups /\ ~Registered(Arg))
    => (/\ result.kind = "raise"
        /\ result.type = "ValueError"
        /\ result.text = "Planet {planet_name} not found"
        /\ result.arg = Arg)

C2_Witness ==
    /\ call.op = "habitability_check"
    /\ Arg = Pluto
    /\ result.kind = "raise"

\* C3: get_planet_by_name fails with an error whenever the name matches no
\* record, it never returns normally for an absent name, and compare_planets
\* surfaces that failure to its caller.
C3_AbsentLookupFails ==
    /\ (call.op = "get_planet_by_name" /\ ~Listed(Arg))
       => result.kind = "raise"
    /\ (call.op = "compare_planets"
        /\ (~Listed(call.args[1]) \/ ~Listed(call.args[2])))
       => result.kind = "raise"

\* C4: for every catalog name habitability_check returns in_habitable_zone
\* = (0.95 < distance_au < 1.37) and suitable_surface_gravity = (0.5 <
\* surface gravity < 2.0), all four bounds strict, and a score that counts
\* the true ones among these two and the constant-true has_stable_orbit,
\* hence a score in 1..3.
C4_HabitabilityFormula ==
    /\ \A i \in DOMAIN PLANETS :
         (call.op = "habitability_check" /\ Arg = PLANETS[i].key)
         => LET d == PLANETS[i].distance_au
                g == surface_gravity(PLANETS[i].key).value
                zone == 950 < d /\ d < 1370
                grav == 500 < g /\ g < 2000
            IN  /\ result.kind = "return"
                /\ result.value.in_habitable_zone = zone
                /\ result.value.suitable_surface_gravity = grav
                /\ result.value.habitability_score
                     = (IF zone THEN 1 ELSE 0) + (IF grav THEN 1 ELSE 0) + 1
                /\ result.value.habitability_score \in 1..3
    \* strictness, at the four bounds and next to them
    /\ ~in_habitable_zone(950) /\ in_habitable_zone(951)
    /\ in_habitable_zone(1369) /\ ~in_habitable_zone(1370)
    /\ ~suitable_gravity(500) /\ suitable_gravity(501)
    /\ suitable_gravity(1999) /\ ~suitable_gravity(2000)

C4_Witness ==
    /\ call.op = "habitability_check"
    /\ Arg = Saturn
    /\ result.kind = "return"
    /\ result.value.habitability_score = 2

\* C5: on the shipped catalog habitability_check("Earth") returns score 3
\* with in_habitable_zone and suitable_surface_gravity both true, and
\* habitability_check("Mercury") returns in_habitable_zone false.
C5_EarthAndMercury ==
    /\ (call.op = "habitability_check" /\ Arg = Earth)
       => (/\ result.kind = "return"
           /\ result.value.habitability_score = 3
           /\ result.value.in_habitable_zone
           /\ result.value.suitable_surface_gravity)
    /\ (call.op = "habitability_check" /\ Arg = Mercury)
       => (/\ result.kind = "return"
           /\ ~result.value.in_habitable_zone)

C5_Witness ==
    /\ call.op = "habitability_check"
    /\ Arg = Earth
    /\ result.kind = "return"
    /\ result.value.habitability_score = 3

\* C6: Earth is the fixed point of the ratio-based derivations: its radius
\* ratio is exactly 1, surface_gravity("Earth") is exactly 1.0 and
\* escape_velocity("Earth") is the reference 11.186; for every record the
\* results are mass_ratio / radius_ratio^2 and 11.186 * sqrt(mass_ratio /
\* radius_ratio) with radius_ratio = radius_km / Earth's radius_km.
C6_EarthFixedPoint ==
    /\ (call.op = "surface_gravity" /\ Arg = Earth)
       => result = [kind |-> "return", value |-> Scale]
    /\ (call.op = "escape_velocity" /\ Arg = Earth)
       => result = [kind |-> "return", value |-> 11186]
    /\ \A i \in DOMAIN PLANETS :
         LET mass  == PLANETS[i].mass_earth
             ratio == TrueDiv(PLANETS[i].radius_km, GetItem(Earth).radius_km)
         IN  /\ (PLANETS[i].key = Earth => ratio = Scale)
             /\ (call.op = "surface_gravity" /\ Arg = PLANETS[i].key)
                => (/\ result.kind = "return"
                    /\ result.value = TrueDiv(mass, FMul(ratio, ratio)))
             /\ (call.op = "escape_velocity" /\ Arg = PLANETS[i].key)
                => (/\ result.kind = "return"
                    /\ result.value
                         = FMul(11186, FSqrt(TrueDiv(mass, ratio))))

C6_Witness ==
    /\ call.op = "surface_gravity"
    /\ Arg = Earth
    /\ result.kind = "return"
    /\ result.value = Scale

MercuryThroughNeptune ==
    <<Mercury, Venus, Earth, Mars, Jupiter, Saturn, Uranus, Neptune>>

StrictlyIncreasing(seq) ==
    \A i, j \in DOMAIN seq : i < j => seq[i] < seq[j]

\* C7: every enumeration of a catalog (solar_system_summary over PLANETS,
\* display_all_planets over SolarSystem.planets) yields the eight planets in
\* the one order Mercury through Neptune, so repeated enumerations yield the
\* identical sequence, and along that order the stored distance from the Sun
\* is strictly increasing.
C7_EnumerationOrder ==
    /\ call.op = "solar_system_summary"
       => (/\ result.kind = "return"
           /\ [i \in DOMAIN stdout |-> stdout[i].heading]
                = [i \in 1..8 |-> upper(MercuryThroughNeptune[i])]
           /\ StrictlyIncreasing([i \in DOMAIN stdout |->
                                    stdout[i].info.distance_au]))
    /\ call.op = "display_all_planets"
       => (/\ result.kind = "return"
           /\ [i \in DOMAIN stdout.listing |-> stdout.listing[i][2]]
                = MercuryThroughNeptune
           /\ [i \in DOMAIN stdout.details |-> stdout.details[i][1]]
                = [i \in 1..8 |-> upper(MercuryThroughNeptune[i])]
           /\ StrictlyIncreasing([i \in DOMAIN stdout.details |->
                                    stdout.details[i][3]]))

C7_Witness ==
    /\ call.op = "solar_system_summary"
    /\ Len(stdout) = 8
    /\ stdout[1].heading = upper(Mercury)
    /\ stdout[8].heading = upper(Neptune)

\* C8: each catalog holds exactly one record per planet name (the eight
\* names, no two equal ignoring case); every record has distance > 0,
\* radius or diameter > 0, mass relative to Earth > 0 and a moon count that
\* is a non-negative integer; Earth's record has distance 1.0 AU and mass
\* ratio 1.0.
C8_CatalogWellFormed ==
    /\ \A n \in CatalogKeys :
         /\ Cardinality({i \in DOMAIN PLANETS : Matches(PLANETS[i].key, n)}) = 1
         /\ Cardinality({i \in DOMAIN planets : Matches(planets[i].name, n)}) = 1
    /\ Len(PLANETS) = Cardinality(CatalogKeys)
    /\ Len(planets) = Cardinality(CatalogKeys)
    /\ Cardinality(CatalogKeys) = 8
    /\ \A i \in DOMAIN PLANETS :
         /\ PLANETS[i].distance_au > 0
         /\ PLANETS[i].radius_km > 0
         /\ PLANETS[i].mass_earth > 0
         /\ PLANETS[i].moons \in Nat
    /\ \A i \in DOMAIN planets :
         /\ planets[i].distance_from_sun_au > 0
         /\ planets[i].diameter_km > 0
         /\ planets[i].mass_relative_to_earth > 0
         /\ planets[i].moons \in Nat
    /\ \A i \in DOMAIN PLANETS :
         PLANETS[i].key = Earth
         => PLANETS[i].distance_au = 1000 /\ PLANETS[i].mass_earth = 1000
    /\ \A i \in DOMAIN planets :
         planets[i].name = Earth
         => /\ planets[i].distance_from_sun_au = 1000
            /\ planets[i].mass_relative_to_earth = 1000

C8_Witness ==
    /\ call.op = "get_planet_by_name"
    /\ Arg = Earth
    /\ result.kind = "return"
    /\ result.value.name = Earth
    /\ result.value.distance_from_sun_au = 1000

\* C9: the catalogs are read-only: after any sequence of calls, successful
\* or failed, PLANETS and SolarSystem.planets hold the records, the field
\* values and the order they had at construction.
C9_CatalogReadOnly ==
    /\ PLANETS = PlanetsDict
    /\ planets = _create_planets

C9_Witness ==
    /\ call.op = "compare_planets"
    /\ call.args = <<Pluto, Earth>>
    /\ stdout = <<"One or both planets not found!">>
    /\ PLANETS = PlanetsDict
    /\ planets = _create_planets

ScalarOps ==
    {"orbital_period_kepler", "orbital_velocity",
     "distance_au_to_km", "distance_km_to_au"}

\* C10 as stated: orbital_period_kepler(0) returns 0 and ends in an error
\* for every negative axis; orbital_velocity ends in an error for every axis
\* <= 0; the two distance conversions return a value of the same sign as
\* their input.
C10_ScalarSignsAsStated ==
    /\ (call.op = "orbital_period_kepler" /\ Arg = 0)
       => result = [kind |-> "return", value |-> 0]
    /\ (call.op = "orbital_period_kepler" /\ Arg < 0)
       => result.kind = "raise"
    /\ (call.op = "orbital_velocity" /\ Arg <= 0)
       => result.kind = "raise"
    /\ call.op \in {"distance_au_to_km", "distance_km_to_au"}
       => (result.kind = "return" /\ Sign(result.value) = Sign(Arg))

\* C10 amended: no scalar function turns a zero or negative input into a
\* positive result.  orbital_period_kepler(0) returns 0; for a negative
\* axis it ends in an error unless axis**3 underflows to zero, and then it
\* returns 0.  orbital_velocity ends in an error for every axis <= 0 unless
\* the axis in metres overflows to -inf, and then it returns 0.
\* distance_au_to_km returns a value of the sign of its input;
\* distance_km_to_au returns a value of the sign of its input, or 0 when
\* the quotient underflows.
C10_ScalarSigns ==
    /\ (call.op \in ScalarOps /\ Arg <= 0 /\ result.kind = "return")
       => result.value <= 0
    /\ (call.op = "orbital_period_kepler" /\ Arg = 0)
       => result = [kind |-> "return", value |-> 0]
    /\ (call.op = "orbital_period_kepler" /\ Arg < 0)
       => IF FPow3(Arg).value = 0
          THEN result = [kind |-> "return", value |-> 0]
          ELSE result.kind = "raise"
    /\ (call.op = "orbital_velocity" /\ Arg <= 0)
       => IF FMul(Arg, AU) = -Inf
          THEN result = [kind |-> "return", value |-> 0]
          ELSE result.kind = "raise"
    /\ call.op = "distance_au_to_km"
       => (result.kind = "return" /\ Sign(result.value) = Sign(Arg))
    /\ call.op = "distance_km_to_au"
       => (/\ result.kind = "return"
           /\ Sign(result.value) \in {Sign(Arg), 0}
           /\ (result.value = 0 /\ Arg # 0) => 2 * Abs(Arg) * Scale < AU)

C10_Witness ==
    /\ call.op = "orbital_velocity"
    /\ Arg < 0
    /\ result = [kind |-> "return", value |-> 0]

\* The orbital velocities that solar_system_summary prints, in its order.
SummaryVelocities ==
    [i \in DOMAIN stdout |-> stdout[i].info.orbital_velocity_km_s]

\* C11 as stated: orbital_velocity is strictly decreasing: for all positive
\* axes a < b, orbital_velocity(a) > orbital_velocity(b); and over the
\* catalog a planet farther from the Sun has a strictly smaller
\* orbital_velocity_km_s in planetary_info.
C11_StrictlyDecreasingAsStated ==
    /\ (call.op = "orbital_velocity" /\ Arg > 0)
       => \A a \in ScalarInputs :
            (0 < a /\ a < Arg)
            => (/\ result.kind = "return"
                /\ orbital_velocity(a).kind = "return"
                /\ orbital_velocity(a).value > result.value)
    /\ \A i, j \in DOMAIN PLANETS :
         (/\ call.op = "planetary_info"
          /\ Arg = PLANETS[j].key
          /\ PLANETS[i].distance_au < PLANETS[j].distance_au)
         => (/\ result.kind = "return"
             /\ planetary_info(PLANETS[i].key).value.orbital_velocity_km_s
                  > result.value.orbital_velocity_km_s)

\* C11 amended: orbital_velocity is non-increasing: for all positive axes
\* a < b, orbital_velocity(a) >= orbital_velocity(b), with equality where
\* rounding merges the two results or both saturate at inf or at 0; over
\* the catalog the decrease is strict: a planet farther from the Sun has a
\* strictly smaller orbital_velocity_km_s in planetary_info, and the
\* velocities of solar_system_summary fall strictly from Mercury to Neptune.
C11_NonIncreasing ==
    /\ (call.op = "orbital_velocity" /\ Arg > 0)
       => \A a \in ScalarInputs :
            (0 < a /\ a < Arg)
            => (/\ result.kind = "return"
                /\ orbital_velocity(a).kind = "return"
                /\ orbital_velocity(a).value >= result.value)
    /\ \A i, j \in DOMAIN PLANETS :
         (/\ call.op = "planetary_info"
          /\ Arg = PLANETS[j].key
          /\ PLANETS[i].distance_au < PLANETS[j].distance_au)
         => (/\ result.kind = "return"
             /\ planetary_info(PLANETS[i].key).value.orbital_velocity_km_s
                  > result.value.orbital_velocity_km_s)
    /\ call.op = "solar_system_summary"
       => \A i, j \in DOMAIN stdout :
            i < j => SummaryVelocities[i] > SummaryVelocities[j]

\* Two neighbouring finite axes in the range of the catalog whose
\* velocities are finite, nonzero and equal.
C11_Witness ==
    /\ call.op = "orbital_velocity"
    /\ Arg - 1 \in {PLANETS[i].distance_au : i \in DOMAIN PLANETS}
    /\ result.kind = "return"
    /\ result.value > 0
    /\ ~IsInf(result.value)
    /\ result.value = orbital_velocity(Arg - 1).value
====
